---- MODULE Spec2Model ----
(***************************************************************************)
(* Model of the tracking system: the ingestion server (src/server.js) with *)
(* its in-memory visitor store, and the browser pipeline                   *)
(* (src/public/tracker.js) that resolves geolocation and submits a record. *)
(*                                                                         *)
(* JavaScript strings are sequences of character codes, so that the        *)
(* rolling hash of generateVisitorID is computed as the code computes it.  *)
(***************************************************************************)
EXTENDS Integers, Sequences, FiniteSets, TLC

\* ------------------------------------------------------------------------
\* Bounds
\* ------------------------------------------------------------------------
\* number of POST /api/track requests in a behaviour
MaxIngest == 3

\* ------------------------------------------------------------------------
\* JavaScript values
\* ------------------------------------------------------------------------
\* the value undefined: no string holds a negative character code
Undef == <<-1>>

\* JavaScript truthiness of a string-or-undefined value
Truthy(v) == v # Undef /\ v # <<>>

\* a || b
Or(a, b) == IF Truthy(a) THEN a ELSE b

\* "unknown"
Unknown == <<117, 110, 107, 110, 111, 119, 110>>
\* "N/D"
ND == <<78, 47, 68>>
\* "||"
Sep == <<124, 124>>

\* ------------------------------------------------------------------------
\* generateVisitorID
\* ------------------------------------------------------------------------
\* A 32-bit word is kept as two 16-bit limbs [hi, lo] (two's complement).
Limb == 65536

\* hash = ((hash << 5) - hash) + char; hash = hash & hash
\* i.e. (31 * hash + char) truncated to a signed 32-bit integer
HashStep(h, c) ==
    LET lo == 31 * h.lo + c
        hi == 31 * h.hi + (lo \div Limb)
    IN  [hi |-> hi % Limb, lo |-> lo % Limb]

RECURSIVE HashFrom(_, _, _)
HashFrom(h, str, i) ==
    IF i > Len(str) THEN h ELSE HashFrom(HashStep(h, str[i]), str, i + 1)

\* the for loop over str, starting from hash = 0
RollingHash(str) == HashFrom([hi |-> 0, lo |-> 0], str, 1)

\* Math.abs of the signed 32-bit value (the result can be 2^31)
Abs32(h) ==
    IF h.hi < 32768 THEN h
    ELSE LET nlo == (Limb - h.lo) % Limb
             nhi == IF h.lo = 0 THEN Limb - h.hi ELSE Limb - 1 - h.hi
         IN  [hi |-> nhi, lo |-> nlo]

\* character code of one hexadecimal digit, lower case
HexDigit(d) == IF d < 10 THEN 48 + d ELSE 87 + d

\* the four hexadecimal digits of a limb
Hex4(x) == << HexDigit(x \div 4096), HexDigit((x \div 256) % 16),
              HexDigit((x \div 16) % 16), HexDigit(x % 16) >>

RECURSIVE StripZeros(_)
StripZeros(s) ==
    IF Len(s) > 1 /\ s[1] = 48 THEN StripZeros(Tail(s)) ELSE s

\* Number.prototype.toString(16) of a non-negative value below 2^32
ToHex(h) == StripZeros(Hex4(h.hi) \o Hex4(h.lo))

\* components.join('||')
JoinComponents(c) == c[1] \o Sep \o c[2] \o Sep \o c[3] \o Sep \o c[4]

\* the audio component taken from the processed signature first
Components_ProcessedFirst(data) ==
    << Or(data.ip, Unknown),
       Or(Or(data.audioSignature, data.audioSignatureRaw), Unknown),
       Or(data.userAgent, Unknown),
       Or(data.platform, Unknown) >>

\* the identifier computed without the declared IP
Components_NoIP(data) ==
    << Unknown,
       Or(Or(data.audioSignatureRaw, data.audioSignature), Unknown),
       Or(data.userAgent, Unknown),
       Or(data.platform, Unknown) >>

\* the four components of the identifier
Components(data) ==
    << Or(data.ip, Unknown),
       Or(Or(data.audioSignatureRaw, data.audioSignature), Unknown),
       Or(data.userAgent, Unknown),
       Or(data.platform, Unknown) >>

generateVisitorID(data) ==
    ToHex(Abs32(RollingHash(JoinComponents(Components(data)))))

\* ------------------------------------------------------------------------
\* detectChanges
\* ------------------------------------------------------------------------
NoChanges ==
    [locationChanged |-> FALSE, deviceChanged |-> FALSE,
     screenChanged |-> FALSE, ipChanged |-> FALSE]

\* detectChanges without the "N/D" test on the city
detectChanges_NoCitySentinel(lastSession, currentData) ==
    IF lastSession = <<>> THEN NoChanges
    ELSE LET last == lastSession[1] IN
         [locationChanged |-> last.city # currentData.city,
          deviceChanged   |-> last.audioSignature # currentData.audioSignature
                              /\ currentData.audioSignature # ND,
          screenChanged   |-> last.screen # currentData.screen,
          ipChanged       |-> last.clientIP # currentData.ip]

\* lastSession is a one-element sequence holding the record, or <<>> when
\* there is no prior session
detectChanges(lastSession, currentData) ==
    IF lastSession = <<>> THEN NoChanges
    ELSE LET last == lastSession[1] IN
         [locationChanged |-> last.city # currentData.city
                              /\ currentData.city # ND,
          deviceChanged   |-> last.audioSignature # currentData.audioSignature
                              /\ currentData.audioSignature # ND,
          screenChanged   |-> last.screen # currentData.screen,
          ipChanged       |-> last.clientIP # currentData.ip]

\* ------------------------------------------------------------------------
\* Requests
\* ------------------------------------------------------------------------
\* "Aa" and "BB": two addresses on which the rolling hash collides
IpAa == <<65, 97>>
IpBB == <<66, 66>>
\* "7": a raw audio signature / a processed one
Sig7 == <<55>>
\* "Chrome"
Chrome == <<67, 104, 114, 111, 109, 101>>
\* "P": a platform
PlatP == <<80>>
\* "S" and "R": two cities
CityS == <<83>>
CityR == <<82>>
\* "1x1": screen dimensions
Scr1 == <<49, 120, 49>>
\* "1,2": a forwarded-for header with two entries; "3": a real-IP header;
\* "r": the connection address
Xff12 == <<49, 44, 50>>
Real3 == <<51>>
RemoteR == <<114>>

\* req.body when express.json() parsed no JSON body and left it undefined
NoBody == [undefined |-> TRUE]

\* the request fields the handler reads
BodyFields ==
    {"ip", "audioSignatureRaw", "audioSignature", "userAgent", "platform",
     "city", "screen"}

\* a complete body, as the browser pipeline sends it
BaseBody ==
    [ip |-> IpAa, audioSignatureRaw |-> Sig7, audioSignature |-> Sig7,
     userAgent |-> Chrome, platform |-> PlatP, city |-> CityS, screen |-> Scr1]

AllBodies ==
    [ip : {IpAa, IpBB, Unknown, Undef},
     audioSignatureRaw : {Sig7, Undef},
     audioSignature : {Sig7, ND},
     userAgent : {Chrome, Undef},
     platform : {PlatP},
     city : {CityS, CityR, ND},
     screen : {Scr1, ND}]

\* the request bodies of the model: the complete body and every body that
\* differs from it in one field
Bodies ==
    {b \in AllBodies : Cardinality({f \in BodyFields : b[f] # BaseBody[f]}) <= 1}

Headers ==
    [xff : {Undef, Xff12}, xreal : {Undef, Real3}, remote : {RemoteR}]

\* "0" and "1"
Str0 == <<48>>
Str1 == <<49>>

\* values of the limit query parameter (Undef: parameter absent)
Limits == {Undef, Str0, Str1}

\* ------------------------------------------------------------------------
\* State
\* ------------------------------------------------------------------------
VARIABLES
    visitors,   \* Map visitorID -> aggregate
    sessions,   \* the global session log
    clock,      \* number of POST /api/track requests handled so far
    okCount,    \* number of those that returned the success response
    response,   \* the response of the last request
    inflight,   \* POST /api/track requests received, handler not yet run
    raced       \* a handler created a visitor while another request of the
                \* same VisitorID was waiting

serverVars == <<visitors, sessions, clock, okCount, response, inflight, raced>>

\* the browser pipeline of one page load (src/public/tracker.js)
VARIABLES
    cpc,            \* the step of sendTrackingData that is in flight
    started,        \* the steps of sendTrackingData in the order they began
    fingerprint,    \* result of getBrowserFingerprint
    audioSig,       \* result of getAudioSignature
    calls,          \* how often each geolocation provider was requested
    resp,           \* the answer each geolocation provider gave
    ipData,         \* result of fetchIPData
    geoRaised,      \* fetchIPData rejected instead of returning
    geoData,        \* the answer of the geocoding search
    correctedData,  \* result of correctLocation
    posted          \* the bodies POSTed to /api/track

clientVars ==
    <<cpc, started, fingerprint, audioSig, calls, resp, ipData, geoRaised,
      geoData, correctedData, posted>>

vars == <<serverVars, clientVars>>

Last(s) == s[Len(s)]

\* x-forwarded-for?.split(',')[0]
RECURSIVE UpToComma(_)
UpToComma(s) ==
    IF s = <<>> \/ s[1] = 44 THEN <<>> ELSE <<s[1]>> \o UpToComma(Tail(s))

FirstForwarded(xff) == IF xff = Undef THEN Undef ELSE UpToComma(xff)

DetectedIP(data, hdr) ==
    Or(Or(Or(data.ip, FirstForwarded(hdr.xff)), hdr.xreal), hdr.remote)

\* the last session of whichever visitor, instead of this visitor's
LastSessionOf_AnyVisitor(vs, visitorID) ==
    IF DOMAIN vs = {} THEN <<>>
    ELSE <<Last(vs[CHOOSE v \in DOMAIN vs : v # visitorID \/ DOMAIN vs = {v}].sessions)>>

\* the last record of the global log when the visitor is known, whoever
\* it belongs to
LastSessionOf_LastInLog(vs, visitorID) ==
    IF visitorID \in DOMAIN vs /\ sessions # <<>>
    THEN <<Last(sessions)>>
    ELSE <<>>

\* lastSession = existingVisitor?.sessions[existingVisitor.sessions.length - 1]
LastSessionOf(vs, visitorID) ==
    IF visitorID \in DOMAIN vs /\ vs[visitorID].sessions # <<>>
    THEN <<Last(vs[visitorID].sessions)>>
    ELSE <<>>

\* the sessionData object built by the handler
SessionData(data, hdr, vs, now) ==
    LET visitorID == generateVisitorID(data)
        changes   == detectChanges(LastSessionOf(vs, visitorID), data)
    IN  [id |-> now,
         visitorID |-> visitorID,
         audioSignature |-> data.audioSignature,
         audioSignatureRaw |-> data.audioSignatureRaw,
         clientIP |-> data.ip,
         serverDetectedIP |-> DetectedIP(data, hdr),
         city |-> data.city,
         userAgent |-> data.userAgent,
         platform |-> data.platform,
         screen |-> data.screen,
         locationChanged |-> changes.locationChanged,
         deviceChanged |-> changes.deviceChanged,
         screenChanged |-> changes.screenChanged,
         ipChanged |-> changes.ipChanged,
         isReturning |-> visitorID \in DOMAIN vs]

\* the returning branch without visits++
StoreVisitor_NoIncrement(vs, sd) ==
    IF sd.isReturning
    THEN [vs EXCEPT ![sd.visitorID] = [@ EXCEPT !.sessions = Append(@, sd)]]
    ELSE [v \in DOMAIN vs \cup {sd.visitorID} |->
             IF v = sd.visitorID
             THEN [visitorID |-> sd.visitorID, visits |-> 1, sessions |-> <<sd>>]
             ELSE vs[v]]

\* visitors.set on every request: what two handlers do that both read
\* visitors.has before either wrote
StoreVisitor_BothCreate(vs, sd) ==
    [v \in DOMAIN vs \cup {sd.visitorID} |->
        IF v = sd.visitorID
        THEN [visitorID |-> sd.visitorID, visits |-> 1, sessions |-> <<sd>>]
        ELSE vs[v]]

\* a new aggregate created with visits: 0
StoreVisitor_CountsFromZero(vs, sd) ==
    IF sd.isReturning
    THEN [vs EXCEPT ![sd.visitorID] =
             [@ EXCEPT !.visits = @ + 1, !.sessions = Append(@, sd)]]
    ELSE [v \in DOMAIN vs \cup {sd.visitorID} |->
             IF v = sd.visitorID
             THEN [visitorID |-> sd.visitorID, visits |-> 0, sessions |-> <<sd>>]
             ELSE vs[v]]

\* the returning branch with unshift in place of push
StoreVisitor_Unshift(vs, sd) ==
    IF sd.isReturning
    THEN [vs EXCEPT ![sd.visitorID] =
             [@ EXCEPT !.visits = @ + 1, !.sessions = <<sd>> \o @]]
    ELSE [v \in DOMAIN vs \cup {sd.visitorID} |->
             IF v = sd.visitorID
             THEN [visitorID |-> sd.visitorID, visits |-> 1, sessions |-> <<sd>>]
             ELSE vs[v]]

\* if (isReturning) { visits++; sessions.push } else { visitors.set(...) }
StoreVisitor(vs, sd) ==
    IF sd.isReturning
    THEN [vs EXCEPT ![sd.visitorID] =
             [@ EXCEPT !.visits = @ + 1, !.sessions = Append(@, sd)]]
    ELSE [v \in DOMAIN vs \cup {sd.visitorID} |->
             IF v = sd.visitorID
             THEN [visitorID |-> sd.visitorID, visits |-> 1, sessions |-> <<sd>>]
             ELSE vs[v]]

FailureResponse ==
    [op |-> "track", status |-> 500, success |-> FALSE]

SuccessResponse(sd) ==
    [op |-> "track", status |-> 200, success |-> TRUE, data |-> sd]

\* the handler throwing after the record is stored, when data.ip is missing
TrackOutcome_ThrowsAfterStore(body, hdr, vs, ss, now) ==
    IF body = NoBody
    THEN [visitors |-> vs, sessions |-> ss, response |-> FailureResponse]
    ELSE LET sd == SessionData(body, hdr, vs, now) IN
         [visitors |-> StoreVisitor(vs, sd),
          sessions |-> Append(ss, sd),
          response |-> IF body.ip = Undef THEN FailureResponse
                       ELSE SuccessResponse(sd)]

\* the handler with sessions.push(sessionData) moved into the else branch
TrackOutcome_PushOnlyNew(body, hdr, vs, ss, now) ==
    IF body = NoBody
    THEN [visitors |-> vs, sessions |-> ss, response |-> FailureResponse]
    ELSE LET sd == SessionData(body, hdr, vs, now) IN
         [visitors |-> StoreVisitor(vs, sd),
          sessions |-> IF sd.isReturning THEN ss ELSE Append(ss, sd),
          response |-> SuccessResponse(sd)]

\* the whole POST /api/track handler: the store and the response it leaves
TrackOutcome(body, hdr, vs, ss, now) ==
    IF body = NoBody
    THEN \* generateVisitorID reads data.ip of undefined: caught, status 500
         [visitors |-> vs, sessions |-> ss, response |-> FailureResponse]
    ELSE LET sd == SessionData(body, hdr, vs, now) IN
         [visitors |-> StoreVisitor(vs, sd),
          sessions |-> Append(ss, sd),
          response |-> SuccessResponse(sd)]

\* one run of the handler, from its first statement to the response
Handle(body, hdr) ==
    /\ clock < MaxIngest
    /\ \E out \in {TrackOutcome(body, hdr, visitors, sessions, clock + 1)} :
       /\ visitors' = out.visitors
       /\ sessions' = out.sessions
       /\ response' = out.response
       /\ okCount' = IF out.response.success THEN okCount + 1 ELSE okCount
    /\ clock' = clock + 1
    /\ UNCHANGED clientVars

\* a request handled as soon as it is received
Track(body, hdr) ==
    /\ Handle(body, hdr)
    /\ UNCHANGED <<inflight, raced>>

\* the requests of the concurrent clients: no proxy headers
DirectHeaders == [xff |-> Undef, xreal |-> Undef, remote |-> RemoteR]

Requests == [body : Bodies \cup {NoBody}, hdr : {DirectHeaders}]

Pending == {r \in Requests : inflight[r] > 0}

RECURSIVE CountAll(_, _)
CountAll(bag, S) ==
    IF S = {} THEN 0
    ELSE LET r == CHOOSE x \in S : TRUE IN bag[r] + CountAll(bag, S \ {r})

\* the VisitorID a waiting request will be filed under
RequestID(r) == IF r.body = NoBody THEN Undef ELSE generateVisitorID(r.body)

\* r is a first request of its visitor and so is another waiting request
FirstAmongSeveral(r) ==
    /\ r.body # NoBody
    /\ RequestID(r) \notin DOMAIN visitors
    /\ \E q \in Pending :
          /\ RequestID(q) = RequestID(r)
          /\ q # r \/ inflight[r] > 1

\* a request arrives while others are still waiting for their handler
Arrive(r) ==
    /\ clock + CountAll(inflight, Requests) < MaxIngest
    /\ inflight' = [inflight EXCEPT ![r] = @ + 1]
    /\ UNCHANGED <<visitors, sessions, clock, okCount, response, raced>>
    /\ UNCHANGED clientVars

\* the event loop runs the handler of one waiting request, whichever body
\* was parsed first; the handler has no await, so it runs to its end
Serve(r) ==
    /\ inflight[r] > 0
    /\ Handle(r.body, r.hdr)
    /\ inflight' = [inflight EXCEPT ![r] = @ - 1]
    /\ raced' = (raced \/ FirstAmongSeveral(r))

\* ------------------------------------------------------------------------
\* GET /api/sessions
\* ------------------------------------------------------------------------
IsDigit(c) == c >= 48 /\ c <= 57

RECURSIVE DigitsValue(_, _)
DigitsValue(s, acc) ==
    IF s = <<>> \/ ~IsDigit(s[1]) THEN acc
    ELSE DigitsValue(Tail(s), 10 * acc + (s[1] - 48))

\* parseInt of a query value: <<n>> for a number, <<>> for NaN
ParseInt(q) ==
    IF q = Undef \/ q = <<>> \/ ~IsDigit(q[1]) THEN <<>>
    ELSE <<DigitsValue(q, 0)>>

DefaultLimit == 50

\* parseInt(req.query.limit) || 50
LimitOf(q) ==
    LET n == ParseInt(q) IN
    IF n = <<>> \/ n[1] = 0 THEN DefaultLimit ELSE n[1]

\* Array.prototype.slice(-limit) for limit > 0
SliceLast(ss, limit) ==
    LET start == IF Len(ss) - limit < 0 THEN 0 ELSE Len(ss) - limit
    IN  [i \in 1..(Len(ss) - start) |-> ss[start + i]]

Reverse(s) == [i \in 1..Len(s) |-> s[Len(s) + 1 - i]]

SessionsResponse(ss, q) ==
    [op |-> "sessions", status |-> 200, success |-> TRUE, query |-> q,
     total |-> Len(ss), sessions |-> Reverse(SliceLast(ss, LimitOf(q)))]

\* sessions.reverse() on the log itself, without the copy slice makes
GetSessions_ReverseInPlace(q) ==
    /\ response' = SessionsResponse(sessions, q)
    /\ sessions' = Reverse(sessions)
    /\ UNCHANGED <<visitors, clock, okCount, inflight, raced>>
    /\ UNCHANGED clientVars

GetSessions(q) ==
    /\ response' = SessionsResponse(sessions, q)
    /\ UNCHANGED <<visitors, sessions, clock, okCount, inflight, raced>>
    /\ UNCHANGED clientVars

\* ------------------------------------------------------------------------
\* GET /api/stats
\* ------------------------------------------------------------------------
\* decimal digits of a non-negative integer
RECURSIVE DecStr(_)
DecStr(n) == IF n < 10 THEN <<48 + n>> ELSE DecStr(n \div 10) \o <<48 + (n % 10)>>

\* ((num / den) * 100).toFixed(1): the nearest tenth, the larger on a tie
ToFixed1Percent(num, den) ==
    LET tenths == (2000 * num + den) \div (2 * den)
    IN  DecStr(tenths \div 10) \o <<46>> \o <<48 + (tenths % 10)>>

ReturningVisitors(vs) == Cardinality({v \in DOMAIN vs : vs[v].visits > 1})

\* returnRate + '%'
ReturnRate(vs) ==
    LET uniqueVisitors == Cardinality(DOMAIN vs) IN
    (IF uniqueVisitors > 0
     THEN ToFixed1Percent(ReturningVisitors(vs), uniqueVisitors)
     ELSE <<48>>) \o <<37>>

\* the alternatives of /(Chrome|Firefox|Safari|Edge|Opera)/, in order
BrowserTokens ==
    << <<67, 104, 114, 111, 109, 101>>,
       <<70, 105, 114, 101, 102, 111, 120>>,
       <<83, 97, 102, 97, 114, 105>>,
       <<69, 100, 103, 101>>,
       <<79, 112, 101, 114, 97>> >>

\* "Other"
Other == <<79, 116, 104, 101, 114>>

\* the token occurs in s at position i
TokenAt(s, i, tok) ==
    /\ i + Len(tok) - 1 <= Len(s)
    /\ \A k \in 1..Len(tok) : s[i + k - 1] = tok[k]

\* the first alternative, from the t-th on, that matches at position i;
\* <<>> when none does
RECURSIVE FirstTokenAt(_, _, _)
FirstTokenAt(s, i, t) ==
    IF t > Len(BrowserTokens) THEN <<>>
    ELSE IF TokenAt(s, i, BrowserTokens[t]) THEN BrowserTokens[t]
    ELSE FirstTokenAt(s, i, t + 1)

\* the match the regular expression finds scanning s from position i on
RECURSIVE BrowserFrom(_, _)
BrowserFrom(s, i) ==
    IF i > Len(s) THEN Other
    ELSE IF FirstTokenAt(s, i, 1) # <<>> THEN FirstTokenAt(s, i, 1)
    ELSE BrowserFrom(s, i + 1)

\* userAgent.match(...)?.[0] || 'Other': the leftmost match, and at that
\* position the first alternative that matches
BrowserOf(ua) == BrowserFrom(ua, 1)

\* the browsers table: bucket -> number of sessions
Browsers(ss) ==
    [b \in {BrowserOf(ss[i].userAgent) : i \in 1..Len(ss)} |->
        Cardinality({i \in 1..Len(ss) : BrowserOf(ss[i].userAgent) = b})]

\* session.userAgent.match(...) on a record stored without userAgent
StatsThrows(ss) == \E i \in 1..Len(ss) : ss[i].userAgent = Undef

StatsResponse(vs, ss) ==
    IF StatsThrows(ss)
    THEN [op |-> "stats", status |-> 500, success |-> FALSE]
    ELSE [op |-> "stats", status |-> 200, success |-> TRUE,
          uniqueVisitors |-> Cardinality(DOMAIN vs),
          totalSessions |-> Len(ss),
          returningVisitors |-> ReturningVisitors(vs),
          returnRate |-> ReturnRate(vs),
          browsers |-> Browsers(ss)]

GetStats ==
    /\ response' = StatsResponse(visitors, sessions)
    /\ UNCHANGED <<visitors, sessions, clock, okCount, inflight, raced>>
    /\ UNCHANGED clientVars

\* ------------------------------------------------------------------------
\* The browser pipeline: values
\* ------------------------------------------------------------------------
\* The pipeline never looks inside a string except to compare it, so its
\* values are plain strings; null and undefined are the two values below.
Null == "null"
Undefined == "undefined"

\* the value of a variable that has not been assigned yet
Unset == "unset"

Tiers == {"primary", "secondary", "tertiary"}

\* a fetch that rejects (network error), for any provider
NetworkError == [kind |-> "exception"]
\* a response whose ok flag is false
HttpError == [kind |-> "http", ok |-> FALSE]

\* https://ipapi.co/json/ : the JSON bodies of an OK response
PrimaryBodies ==
    [kind : {"http"}, ok : {TRUE}, error : BOOLEAN,
     ip : {Undefined, "203.0.113.7"}, city : {"Campinas"}, region : {"Sao Paulo"},
     country_code : {"BR"}, country_name : {"Brazil"},
     timezone : {"America/Sao_Paulo"}, utc_offset : {"-0300"}, org : {"ISP"},
     country_population : {"209469333"}, country_calling_code : {"+55"},
     currency_name : {"Real"}, currency : {"BRL"}, languages : {"pt-BR"},
     country_capital : {"Brasilia"}, latitude : {"-22.9"}, longitude : {"-47.1"}]

\* http://ip-api.com/json/ : the JSON bodies of an OK response
SecondaryBodies ==
    [kind : {"http"}, ok : {TRUE}, status : {"success", "fail"},
     query : {Undefined, "203.0.113.7"}, city : {"Campinas"},
     regionName : {"Sao Paulo"}, countryCode : {"BR"}, country : {"Brazil"},
     timezone : {"America/Sao_Paulo"}, isp : {"ISP"},
     lat : {"-22.9"}, lon : {"-47.1"}]

\* https://api.ipify.org/?format=json : the JSON bodies of an OK response
TertiaryBodies ==
    [kind : {"http"}, ok : {TRUE}, ip : {Undefined, "203.0.113.7"}]

PrimaryResponses == {NetworkError, HttpError} \cup PrimaryBodies
SecondaryResponses == {NetworkError, HttpError} \cup SecondaryBodies
TertiaryResponses == {NetworkError, HttpError} \cup TertiaryBodies

\* ------------------------------------------------------------------------
\* fetchIPData
\* ------------------------------------------------------------------------
\* !value for a string, null or undefined
Falsy(v) == v = Undefined \/ v = Null \/ v = ""

\* the primary tier with the test of data.error inverted
PrimaryOk_ErrorTestInverted(r) ==
    r.kind = "http" /\ r.ok /\ r.error /\ ~Falsy(r.ip)

\* the primary tier reaches "return data"
PrimaryOk(r) == r.kind = "http" /\ r.ok /\ ~r.error /\ ~Falsy(r.ip)

\* the data the primary tier returns: the provider's JSON as it came
PrimaryData(r) ==
    [ip |-> r.ip, city |-> r.city, region |-> r.region,
     country_code |-> r.country_code, country_name |-> r.country_name,
     timezone |-> r.timezone, utc_offset |-> r.utc_offset, org |-> r.org,
     country_population |-> r.country_population,
     country_calling_code |-> r.country_calling_code,
     currency_name |-> r.currency_name, currency |-> r.currency,
     languages |-> r.languages, country_capital |-> r.country_capital,
     latitude |-> r.latitude, longitude |-> r.longitude]

\* the secondary tier reaches its return statement
SecondaryOk(r) == r.kind = "http" /\ r.ok /\ r.status = "success"

\* the object the secondary tier returns
SecondaryData(r) ==
    [ip |-> r.query, city |-> r.city, region |-> r.regionName,
     country_code |-> r.countryCode, country_name |-> r.country,
     timezone |-> r.timezone, utc_offset |-> Null, org |-> r.isp,
     country_population |-> Null, country_calling_code |-> Null,
     currency_name |-> Null, currency |-> Null, languages |-> Null,
     country_capital |-> Null, latitude |-> r.lat, longitude |-> r.lon]

\* the tertiary tier reaches its return statement
TertiaryOk(r) == r.kind = "http" /\ r.ok /\ ~Falsy(r.ip)

\* the object the tertiary tier returns; fields it does not set are undefined
TertiaryData(r) ==
    [ip |-> r.ip, city |-> "N/D", region |-> "N/D",
     country_code |-> "N/D", country_name |-> "N/D",
     timezone |-> Null, utc_offset |-> Null, org |-> "N/D",
     country_population |-> Undefined, country_calling_code |-> Undefined,
     currency_name |-> Undefined, currency |-> Undefined,
     languages |-> Undefined, country_capital |-> Undefined,
     latitude |-> Undefined, longitude |-> Undefined]

\* ------------------------------------------------------------------------
\* correctLocation
\* ------------------------------------------------------------------------
\* the result lists of the geocoding search (a missing list acts as <<>>)
GeocodeResults ==
    { <<>>,
      << [country_code |-> "US", admin1 |-> "Florida", country |-> "United States"] >>,
      << [country_code |-> "US", admin1 |-> "Florida", country |-> "United States"],
         [country_code |-> "BR", admin1 |-> "Minas Gerais", country |-> "Brasil"],
         [country_code |-> "BR", admin1 |-> "Bahia", country |-> "Brasil"] >>,
      << [country_code |-> "BR", admin1 |-> Undefined, country |-> Undefined] >> }

GeocodeResponses ==
    {NetworkError} \cup [kind : {"http"}, results : GeocodeResults]

\* a || b on pipeline values
OrElse(a, b) == IF Falsy(a) THEN b ELSE a

\* geoData.results.find(c => c.country_code === countryCode): the matching
\* indices; find returns the one with the least index
Matches(results, countryCode) ==
    {i \in 1..Len(results) : results[i].country_code = countryCode}

\* find returning the match with the greatest index
FirstMatch_LastMatch(results, countryCode) ==
    results[CHOOSE i \in Matches(results, countryCode) :
                \A j \in Matches(results, countryCode) : i >= j]

FirstMatch(results, countryCode) ==
    results[CHOOSE i \in Matches(results, countryCode) :
                \A j \in Matches(results, countryCode) : i <= j]

correctLocation(g, countryCode, region) ==
    IF g.kind = "exception"
    THEN [correctedRegion |-> region, correctedCountry |-> Null]
    ELSE IF Matches(g.results, countryCode) # {}
    THEN LET match == FirstMatch(g.results, countryCode) IN
         [correctedRegion |-> OrElse(match.admin1, region),
          correctedCountry |-> OrElse(match.country, Null)]
    ELSE [correctedRegion |-> region, correctedCountry |-> Null]

\* ------------------------------------------------------------------------
\* sendTrackingData
\* ------------------------------------------------------------------------
\* how the digest step of sha256 ends
HashOutcomes == {"digest", "no crypto.subtle", "digest throws"}
\* how the offline rendering of getAudioSignature ends
AudioOutcomes == {"no OfflineAudioContext", "rendering throws", "rendered"}

\* sha256(str): the digest, or simpleHash(str)
Sha256(o) == IF o = "digest" THEN "sha256 hex" ELSE "simpleHash hex"

\* the string getAudioSignature returns
AudioSignature(o) ==
    CASE o = "no OfflineAudioContext" -> "UNSUPPORTED"
      [] o = "rendering throws" -> "ERROR"
      [] OTHER -> "124"

\* audioCRC
AudioCRC(sig) ==
    IF sig # "ERROR" /\ sig # "UNSUPPORTED" THEN "crc32 of " \o sig ELSE "N/D"

\* let correctedData = null
NotCorrected == [isNull |-> TRUE]

\* the trackingData object
TrackingData(fp, sig, d, cd) ==
    [fingerprint |-> fp,
     audioSignature |-> AudioCRC(sig),
     audioSignatureRaw |-> sig,
     ip |-> d.ip,
     city |-> d.city,
     region |-> d.region,
     correctedRegion |-> IF cd = NotCorrected THEN d.region
                         ELSE OrElse(cd.correctedRegion, d.region),
     country |-> d.country_name,
     countryCode |-> d.country_code,
     utcOffset |-> d.utc_offset,
     org |-> d.org,
     countryPopulation |-> d.country_population,
     countryCallingCode |-> d.country_calling_code,
     currencyName |-> d.currency_name,
     currency |-> d.currency,
     languages |-> d.languages,
     countryCapital |-> d.country_capital,
     latitude |-> d.latitude,
     longitude |-> d.longitude]

\* building trackingData reads ipData.ip.startsWith: a TypeError unless
\* ipData.ip is a string
BuildThrows(d) == d.ip = Undefined \/ d.ip = Null

\* from the assembly of trackingData to the fetch of API_URL; an exception
\* goes to the catch of sendTrackingData
BuildAndPost(d, cd) ==
    IF BuildThrows(d)
    THEN /\ cpc' = "done"
         /\ started' = started
         /\ posted' = posted
    ELSE /\ cpc' = "post"
         /\ started' = Append(started, "submission")
         /\ posted' = Append(posted, TrackingData(fingerprint, audioSig, d, cd))

\* fetchIPData returned d: sendTrackingData goes on to the correction
Resolved(d) ==
    /\ ipData' = d
    /\ IF d.city # "N/D"
       THEN /\ cpc' = "correct"
            /\ started' = Append(started, "correction")
            /\ posted' = posted
       ELSE BuildAndPost(d, correctedData)

\* the geolocation requested together with the audio signature, as in a
\* Promise.all of the two
getBrowserFingerprint_FanOut(o) ==
    /\ cpc = "fingerprint"
    /\ fingerprint' = Sha256(o)
    /\ cpc' = "audio"
    /\ started' = started \o <<"audio", "geolocation">>
    /\ calls' = [calls EXCEPT !["primary"] = @ + 1]
    /\ UNCHANGED <<audioSig, resp, ipData, geoRaised, geoData, correctedData, posted>>
    /\ UNCHANGED serverVars

getBrowserFingerprint(o) ==
    /\ cpc = "fingerprint"
    /\ fingerprint' = Sha256(o)
    /\ cpc' = "audio"
    /\ started' = Append(started, "audio")
    /\ UNCHANGED <<audioSig, calls, resp, ipData, geoRaised, geoData, correctedData, posted>>
    /\ UNCHANGED serverVars

getAudioSignature(o) ==
    /\ cpc = "audio"
    /\ audioSig' = AudioSignature(o)
    /\ cpc' = "primary"
    /\ started' = Append(started, "geolocation")
    /\ calls' = [calls EXCEPT !["primary"] = @ + 1]
    /\ UNCHANGED <<fingerprint, resp, ipData, geoRaised, geoData, correctedData, posted>>
    /\ UNCHANGED serverVars

fetchPrimary(r) ==
    /\ cpc = "primary"
    /\ resp' = [resp EXCEPT !["primary"] = r]
    /\ IF PrimaryOk(r)
       THEN /\ Resolved(PrimaryData(r))
            /\ calls' = calls
       ELSE /\ cpc' = "secondary"
            /\ calls' = [calls EXCEPT !["secondary"] = @ + 1]
            /\ UNCHANGED <<started, ipData, posted>>
    /\ UNCHANGED <<fingerprint, audioSig, geoRaised, geoData, correctedData>>
    /\ UNCHANGED serverVars

fetchSecondary(r) ==
    /\ cpc = "secondary"
    /\ resp' = [resp EXCEPT !["secondary"] = r]
    /\ IF SecondaryOk(r)
       THEN /\ Resolved(SecondaryData(r))
            /\ calls' = calls
       ELSE /\ cpc' = "tertiary"
            /\ calls' = [calls EXCEPT !["tertiary"] = @ + 1]
            /\ UNCHANGED <<started, ipData, posted>>
    /\ UNCHANGED <<fingerprint, audioSig, geoRaised, geoData, correctedData>>
    /\ UNCHANGED serverVars

fetchTertiary(r) ==
    /\ cpc = "tertiary"
    /\ resp' = [resp EXCEPT !["tertiary"] = r]
    /\ IF TertiaryOk(r)
       THEN /\ Resolved(TertiaryData(r))
            /\ geoRaised' = geoRaised
       ELSE \* the throw leaves fetchIPData: caught by sendTrackingData
            /\ geoRaised' = TRUE
            /\ cpc' = "done"
            /\ UNCHANGED <<started, ipData, posted>>
    /\ UNCHANGED <<fingerprint, audioSig, calls, geoData, correctedData>>
    /\ UNCHANGED serverVars

correctRegion(g) ==
    /\ cpc = "correct"
    /\ geoData' = g
    /\ \E cd \in {correctLocation(g, ipData.country_code, ipData.region)} :
          /\ correctedData' = cd
          /\ BuildAndPost(ipData, cd)
    /\ UNCHANGED <<fingerprint, audioSig, calls, resp, ipData, geoRaised>>
    /\ UNCHANGED serverVars

\* the POST resolves or rejects; either way sendTrackingData only logs
postDone ==
    /\ cpc = "post"
    /\ cpc' = "done"
    /\ UNCHANGED <<started, fingerprint, audioSig, calls, resp, ipData,
                   geoRaised, geoData, correctedData, posted>>
    /\ UNCHANGED serverVars

\* ------------------------------------------------------------------------
\* Specifications
\* ------------------------------------------------------------------------
Init ==
    /\ visitors = <<>>
    /\ sessions = <<>>
    /\ clock = 0
    /\ okCount = 0
    /\ response = [op |-> "none", status |-> 0, success |-> FALSE]
    /\ inflight = [r \in Requests |-> 0]
    /\ raced = FALSE
    /\ cpc = "fingerprint"
    /\ started = <<"fingerprint">>
    /\ fingerprint = Unset
    /\ audioSig = Unset
    /\ calls = [t \in Tiers |-> 0]
    /\ resp = [t \in Tiers |-> [kind |-> Unset]]
    /\ ipData = [ip |-> Unset]
    /\ geoRaised = FALSE
    /\ geoData = [kind |-> Unset]
    /\ correctedData = NotCorrected
    /\ posted = <<>>

PostTrack == \E body \in Bodies \cup {NoBody}, hdr \in Headers : Track(body, hdr)

ListSessions == \E q \in Limits : GetSessions(q)

\* the server, serving requests in any order
Next == PostTrack \/ ListSessions \/ GetStats

Spec == Init /\ [][Next]_vars

Fingerprint == \E o \in HashOutcomes : getBrowserFingerprint(o)

Audio == \E o \in AudioOutcomes : getAudioSignature(o)

Primary == \E r \in PrimaryResponses : fetchPrimary(r)

Secondary == \E r \in SecondaryResponses : fetchSecondary(r)

Tertiary == \E r \in TertiaryResponses : fetchTertiary(r)

Correct == \E g \in GeocodeResponses : correctRegion(g)

\* one page load of the browser pipeline
NextClient ==
    Fingerprint \/ Audio \/ Primary \/ Secondary \/ Tertiary \/ Correct \/ postDone

SpecClient == Init /\ [][NextClient]_vars

Receive == \E r \in Requests : Arrive(r)

RunHandler == \E r \in Requests : Serve(r)

\* the server with several POST /api/track requests in flight
NextConcurrent == Receive \/ RunHandler

SpecConcurrent == Init /\ [][NextConcurrent]_vars

\* ------------------------------------------------------------------------
\* Properties of the ingestion server
\* ------------------------------------------------------------------------
\* C1 (as stated): in every session k > 1 of a visitor, each of the four
\* diff flags is true iff its field differs from session k-1 and the new
\* value is not "N/D".
C1_FlagsIffDiffersAndNotSentinel ==
    \A v \in DOMAIN visitors : \A k \in 2..Len(visitors[v].sessions) :
        LET cur  == visitors[v].sessions[k]
            prev == visitors[v].sessions[k - 1]
        IN  /\ cur.locationChanged <=> (cur.city # prev.city /\ cur.city # ND)
            /\ cur.deviceChanged <=> (cur.audioSignature # prev.audioSignature
                                      /\ cur.audioSignature # ND)
            /\ cur.screenChanged <=> (cur.screen # prev.screen /\ cur.screen # ND)
            /\ cur.ipChanged <=> (cur.clientIP # prev.clientIP /\ cur.clientIP # ND)

\* C1 (amended): in every session k > 1 of a visitor, locationChanged and
\* deviceChanged are true iff the field differs from session k-1 and the
\* new value is not "N/D"; screenChanged and ipChanged are true iff the
\* field differs from session k-1, whatever the new value.
C1_FlagsPerField ==
    \A v \in DOMAIN visitors : \A k \in 2..Len(visitors[v].sessions) :
        LET cur  == visitors[v].sessions[k]
            prev == visitors[v].sessions[k - 1]
        IN  /\ cur.locationChanged <=> (cur.city # prev.city /\ cur.city # ND)
            /\ cur.deviceChanged <=> (cur.audioSignature # prev.audioSignature
                                      /\ cur.audioSignature # ND)
            /\ cur.screenChanged <=> (cur.screen # prev.screen)
            /\ cur.ipChanged <=> (cur.clientIP # prev.clientIP)

\* a visitor's third session changes the city to a real value after a
\* second session that changed the screen to "N/D"
C1_Witness ==
    \E v \in DOMAIN visitors :
        /\ Len(visitors[v].sessions) = 3
        /\ visitors[v].sessions[2].screen = ND
        /\ visitors[v].sessions[2].screenChanged
        /\ visitors[v].sessions[3].city = CityR
        /\ visitors[v].sessions[3].locationChanged
        /\ visitors[v].sessions[3].screenChanged

\* C2: the first session stored for a VisitorID has all four diff flags
\* false, whatever the request carries and whoever else is in the store.
C2_FirstSessionHasNoFlags ==
    \A v \in DOMAIN visitors :
        LET first == visitors[v].sessions[1]
        IN  /\ ~first.locationChanged
            /\ ~first.deviceChanged
            /\ ~first.screenChanged
            /\ ~first.ipChanged

\* a visitor whose first session arrived after another visitor's session
\* with a different declared IP and user agent
C2_Witness ==
    /\ Len(sessions) >= 2
    /\ ~sessions[2].isReturning
    /\ sessions[2].clientIP # sessions[1].clientIP
    /\ response.op = "track"
    /\ Cardinality(DOMAIN visitors) = 2

Min(a, b) == IF a < b THEN a ELSE b

\* C4: for every non-negative integer N given as limit and every log of
\* length M, GET /api/sessions returns exactly min(N, M) entries, the last
\* min(N, M) records of the log, most recent first; N is 50 when no limit
\* is given.
C4_SessionsReturnsLastN ==
    response.op = "sessions" =>
        LET N == IF response.query = Undef THEN 50
                 ELSE ParseInt(response.query)[1]
            M == Len(sessions)
            n == Min(N, M)
        IN  /\ Len(response.sessions) = n
            /\ \A i \in 1..n : response.sessions[i] = sessions[M + 1 - i]

\* the request body a stored record was built from
BodyOf(sd) ==
    [ip |-> sd.clientIP, audioSignatureRaw |-> sd.audioSignatureRaw,
     audioSignature |-> sd.audioSignature, userAgent |-> sd.userAgent,
     platform |-> sd.platform, city |-> sd.city, screen |-> sd.screen]

\* C5: a successful ingestion whose VisitorID is in the store adds 1 to
\* that visitor's counter and appends the record, isReturning = true, to
\* the visitor's list and to the log; otherwise it creates an aggregate
\* with counter 1 and the one record, isReturning = false, and appends the
\* record to the log. No other visitor's aggregate changes.
C5_IngestionEffect ==
    [][okCount' = okCount + 1 =>
        \E sd \in {Last(sessions')} : \E id \in {generateVisitorID(BodyOf(sd))} :
            /\ sd.visitorID = id
            /\ sessions' = Append(sessions, sd)
            /\ IF id \in DOMAIN visitors
               THEN /\ DOMAIN visitors' = DOMAIN visitors
                    /\ visitors'[id].visits = visitors[id].visits + 1
                    /\ visitors'[id].sessions = Append(visitors[id].sessions, sd)
                    /\ sd.isReturning
               ELSE /\ DOMAIN visitors' = DOMAIN visitors \cup {id}
                    /\ visitors'[id].visits = 1
                    /\ visitors'[id].sessions = <<sd>>
                    /\ ~sd.isReturning
            /\ \A v \in DOMAIN visitors \ {id} : visitors'[v] = visitors[v]
    ]_vars

\* a visitor returned while another visitor was in the store
C5_Witness ==
    /\ response.op = "track"
    /\ response.success
    /\ response.data.isReturning
    /\ visitors[response.data.visitorID].visits = 2
    /\ Cardinality(DOMAIN visitors) = 2

\* C6: GET /api/stats reports returnRate as returningVisitors /
\* uniqueVisitors, as a percentage with one decimal, and as 0 in the same
\* format when there are no visitors.
C6_ReturnRateOneDecimal ==
    response.op = "stats" =>
        /\ response.success
        /\ LET unique    == Cardinality(DOMAIN visitors)
               returning == Cardinality({v \in DOMAIN visitors :
                                           visitors[v].visits > 1})
           IN  response.returnRate =
                   (IF unique > 0 THEN ToFixed1Percent(returning, unique)
                    ELSE ToFixed1Percent(0, 1)) \o <<37>>

SameIdentityInputs(a, b) ==
    /\ a.clientIP = b.clientIP
    /\ Or(a.audioSignatureRaw, a.audioSignature)
         = Or(b.audioSignatureRaw, b.audioSignature)
    /\ a.userAgent = b.userAgent
    /\ a.platform = b.platform

InListOf(v, sd) == \E k \in 1..Len(visitors[v].sessions) : visitors[v].sessions[k] = sd

\* C8: two ingestions that agree on (declared IP, audio signature raw else
\* processed, user agent, platform) get the same VisitorID and are stored
\* under the same aggregate, whatever the other fields, the headers and
\* the store held.
C8_SameInputsSameVisitor ==
    \A i, j \in 1..Len(sessions) :
        SameIdentityInputs(sessions[i], sessions[j]) =>
            /\ sessions[i].visitorID = sessions[j].visitorID
            /\ sessions[i].visitorID \in DOMAIN visitors
            /\ InListOf(sessions[i].visitorID, sessions[i])
            /\ InListOf(sessions[i].visitorID, sessions[j])

\* two requests without a declared IP arrived with different headers, one
\* before and one after another visitor's session
C8_Witness ==
    /\ Len(sessions) = 3
    /\ SameIdentityInputs(sessions[1], sessions[3])
    /\ sessions[1].clientIP = Undef
    /\ sessions[1].serverDetectedIP # sessions[3].serverDetectedIP
    /\ sessions[2].visitorID # sessions[1].visitorID
    /\ sessions[3].visitorID = sessions[1].visitorID

\* ------------------------------------------------------------------------
\* Properties of the geolocation resolver
\* ------------------------------------------------------------------------
Answered(t) == resp[t].kind # Unset

\* a provider succeeds when it answers OK, reports no error and gives an IP
PrimarySucceeded ==
    LET r == resp["primary"] IN
    r.kind = "http" /\ r.ok /\ ~r.error /\ r.ip # Undefined

SecondarySucceeded ==
    LET r == resp["secondary"] IN
    r.kind = "http" /\ r.ok /\ r.status = "success" /\ r.query # Undefined

TertiarySucceeded ==
    LET r == resp["tertiary"] IN
    r.kind = "http" /\ r.ok /\ r.ip # Undefined

PrimaryFailed == Answered("primary") /\ ~PrimarySucceeded
SecondaryFailed == Answered("secondary") /\ ~SecondarySucceeded
TertiaryFailed == Answered("tertiary") /\ ~TertiarySucceeded

\* C9: in fetchIPData a tier is requested only after the previous tier
\* failed; after a primary success the other two are never requested;
\* after a primary failure and a secondary success the tertiary is never
\* requested and the result is the secondary's normalized record, with utc
\* offset, population, calling code, currency name, currency, languages
\* and capital null; no tier is requested twice.
C9_FallbackChain ==
    /\ \A t \in Tiers : calls[t] <= 1
    /\ calls["secondary"] > 0 => PrimaryFailed
    /\ calls["tertiary"] > 0 => PrimaryFailed /\ SecondaryFailed
    /\ PrimarySucceeded => calls["secondary"] = 0 /\ calls["tertiary"] = 0
    /\ (PrimaryFailed /\ SecondarySucceeded) =>
          /\ calls["tertiary"] = 0
          /\ ipData.ip = resp["secondary"].query
          /\ ipData.city = resp["secondary"].city
          /\ ipData.region = resp["secondary"].regionName
          /\ ipData.country_code = resp["secondary"].countryCode
          /\ ipData.country_name = resp["secondary"].country
          /\ ipData.timezone = resp["secondary"].timezone
          /\ ipData.org = resp["secondary"].isp
          /\ ipData.latitude = resp["secondary"].lat
          /\ ipData.longitude = resp["secondary"].lon
          /\ ipData.utc_offset = Null
          /\ ipData.country_population = Null
          /\ ipData.country_calling_code = Null
          /\ ipData.currency_name = Null
          /\ ipData.currency = Null
          /\ ipData.languages = Null
          /\ ipData.country_capital = Null

\* the pipeline finished a page load on the secondary provider's data,
\* after the primary reported an error
C9_Witness ==
    /\ cpc = "done"
    /\ resp["primary"].kind = "http"
    /\ resp["primary"].ok
    /\ resp["primary"].error
    /\ SecondarySucceeded
    /\ Len(posted) = 1
    /\ posted[1].currency = Null

\* C10: whatever the three providers answer, fetchIPData returns a record
\* and never raises; when all three tiers fail the record is all sentinels.
C10_ResolverNeverRaises ==
    /\ ~geoRaised
    /\ (PrimaryFailed /\ SecondaryFailed /\ TertiaryFailed) =>
          /\ ipData.city = "N/D"
          /\ ipData.region = "N/D"
          /\ ipData.country_code = "N/D"
          /\ ipData.country_name = "N/D"
          /\ ipData.org = "N/D"

\* ------------------------------------------------------------------------
\* Properties of sendTrackingData
\* ------------------------------------------------------------------------
\* C11: whichever steps fail (hashing, audio, any subset of the providers,
\* geocoding), a pipeline that has finished has POSTed exactly one record,
\* and the fields of the failed steps hold their sentinels.
C11_EveryRunSubmits ==
    cpc = "done" =>
        /\ Len(posted) = 1
        /\ audioSig \in {"ERROR", "UNSUPPORTED"} => posted[1].audioSignature = "N/D"
        /\ TertiarySucceeded => posted[1].city = "N/D"

\* the geocoding search was requested and has answered
LookupPerformed == geoData.kind # Unset

\* the geocoding answer holds a result of the resolved country
LookupMatched ==
    /\ geoData.kind = "http"
    /\ \E i \in 1..Len(geoData.results) :
          geoData.results[i].country_code = ipData.country_code

\* the earliest result of the resolved country in the geocoding answer
EarliestOfCountry ==
    geoData.results[
        CHOOSE i \in 1..Len(geoData.results) :
            /\ geoData.results[i].country_code = ipData.country_code
            /\ \A j \in 1..(i - 1) :
                  geoData.results[j].country_code # ipData.country_code]

\* fetchIPData has returned and the correction step is over
PastCorrection == cpc \in {"post", "done"} /\ ipData.ip # Unset

\* C12 (as stated): the lookup is performed exactly when the resolved city
\* is not "N/D"; on a match the submitted correctedRegion is the admin1 of
\* the first result of the resolved country; otherwise it is the resolved
\* region.
C12_RegionCorrection ==
    /\ LookupPerformed => ipData.city # "N/D"
    /\ PastCorrection => (LookupPerformed <=> ipData.city # "N/D")
    /\ Len(posted) = 1 =>
          posted[1].correctedRegion =
             IF LookupPerformed /\ LookupMatched
             THEN EarliestOfCountry.admin1
             ELSE ipData.region

\* C12 (amended): as above, except that a first matching result without an
\* admin1 leaves the resolved region in place.
C12_RegionCorrectionOrOriginal ==
    /\ LookupPerformed => ipData.city # "N/D"
    /\ PastCorrection => (LookupPerformed <=> ipData.city # "N/D")
    /\ Len(posted) = 1 =>
          posted[1].correctedRegion =
             IF LookupPerformed /\ LookupMatched
                /\ ~Falsy(EarliestOfCountry.admin1)
             THEN EarliestOfCountry.admin1
             ELSE ipData.region

\* a record was submitted after a lookup that returned two results of the
\* resolved country, behind one of another country
C12_Witness ==
    /\ Len(posted) = 1
    /\ LookupPerformed
    /\ LookupMatched
    /\ Len(geoData.results) = 3
    /\ geoData.results[1].country_code # ipData.country_code
    /\ geoData.results[2].country_code = ipData.country_code
    /\ geoData.results[3].country_code = ipData.country_code
    /\ posted[1].correctedRegion = "Minas Gerais"
    /\ posted[1].region = "Sao Paulo"

\* the steps of sendTrackingData in the order of the source
StepOrder == <<"fingerprint", "audio", "geolocation", "correction", "submission">>

StepIndex(step) == CHOOSE i \in 1..Len(StepOrder) : StepOrder[i] = step

\* the awaited promise of a step has settled
Completed(step) ==
    CASE step = "fingerprint" -> fingerprint # Unset
      [] step = "audio" -> audioSig # Unset
      [] step = "geolocation" -> ipData.ip # Unset \/ geoRaised
      [] step = "correction" -> geoData.kind # Unset
      [] step = "submission" -> cpc = "done"

\* C13: the steps start in the order fingerprint, audio signature,
\* geolocation, region correction, submission; a step starts only when every
\* step started before it has completed, so at most the last started step
\* is in flight; only the region correction may be left out; and at most
\* one record is submitted per page load.
C13_StepsInOrderOneAtATime ==
    /\ started[1] = "fingerprint"
    /\ \A i, j \in 1..Len(started) :
          i < j => StepIndex(started[i]) < StepIndex(started[j])
    /\ \A i \in 1..(Len(started) - 1) : Completed(started[i])
    /\ \A i \in 1..Len(started) : i <= 3 => started[i] = StepOrder[i]
    /\ Len(posted) <= 1
    /\ Len(posted) = Cardinality({i \in 1..Len(started) : started[i] = "submission"})

\* a page load that went through all five steps and has ended
C13_Witness ==
    /\ started = StepOrder
    /\ cpc = "done"
    /\ Len(posted) = 1

\* ------------------------------------------------------------------------
\* Properties of the server under concurrent requests
\* ------------------------------------------------------------------------
RECURSIVE SumVisits(_, _)
SumVisits(vs, S) ==
    IF S = {} THEN 0
    ELSE LET v == CHOOSE x \in S : TRUE IN vs[v].visits + SumVisits(vs, S \ {v})

\* the positions of the log that belong to visitor v
LogOf(v) == {i \in 1..Len(sessions) : sessions[i].visitorID = v}

NextOfSameVisitor(i, j) ==
    /\ i < j
    /\ sessions[i].visitorID = sessions[j].visitorID
    /\ \A k \in (i + 1)..(j - 1) : sessions[k].visitorID # sessions[i].visitorID

\* C15: the four flags of a session are the comparison of its request with
\* the previous session of the same visitor; the sessions of other visitors
\* that the log holds between the two have no influence on them.
C15_FlagsIgnoreOtherVisitors ==
    \A i, j \in 1..Len(sessions) :
        NextOfSameVisitor(i, j) =>
            \E own \in {detectChanges(<<sessions[i]>>, BodyOf(sessions[j]))} :
                /\ sessions[j].locationChanged = own.locationChanged
                /\ sessions[j].deviceChanged = own.deviceChanged
                /\ sessions[j].screenChanged = own.screenChanged
                /\ sessions[j].ipChanged = own.ipChanged

\* between two identical sessions of one visitor the log holds a session of
\* another visitor with another declared IP; the later session has no flag
\* set
C15_Witness ==
    /\ Len(sessions) = 3
    /\ NextOfSameVisitor(1, 3)
    /\ sessions[2].visitorID # sessions[1].visitorID
    /\ sessions[2].clientIP # sessions[1].clientIP
    /\ BodyOf(sessions[3]) = BodyOf(sessions[1])
    /\ ~sessions[3].ipChanged
    /\ ~sessions[3].locationChanged

IsPrefix(s, t) == Len(s) <= Len(t) /\ \A i \in 1..Len(s) : s[i] = t[i]

\* C16: every operation leaves the log a prefix of the log after it and
\* every visitor's list a prefix of that visitor's list after it, so stored
\* records keep their content and their order; GET /api/sessions and
\* GET /api/stats leave the visitors and the log as they were.
C16_AppendOnly ==
    [][/\ IsPrefix(sessions, sessions')
       /\ \A v \in DOMAIN visitors :
             /\ v \in DOMAIN visitors'
             /\ IsPrefix(visitors[v].sessions, visitors'[v].sessions)
       /\ response'.op \in {"sessions", "stats"} =>
             /\ visitors' = visitors
             /\ sessions' = sessions
    ]_vars

\* GET /api/sessions answered with the newest record first, from a log that
\* still holds its records oldest first
C16_Witness ==
    /\ response.op = "sessions"
    /\ Len(sessions) = 3
    /\ Len(response.sessions) = 3
    /\ response.sessions[1] = sessions[3]
    /\ \A i \in 1..3 : sessions[i].id = i
    /\ \E v \in DOMAIN visitors : Len(visitors[v].sessions) >= 2

RECURSIVE SumCounts(_, _)
SumCounts(table, S) ==
    IF S = {} THEN 0
    ELSE LET b == CHOOSE x \in S : TRUE IN table[b] + SumCounts(table, S \ {b})

\* C17: whatever successful ingestions filled the store, records without a
\* userAgent included, GET /api/stats answers with success and its browser
\* counts, one bucket per session, add up to totalSessions.
C17_StatsAlwaysSucceeds ==
    response.op = "stats" =>
        /\ response.success
        /\ response.status = 200
        /\ SumCounts(response.browsers, DOMAIN response.browsers)
              = response.totalSessions
        /\ response.totalSessions = Len(sessions)

RECURSIVE LogRecordsOf(_, _)
LogRecordsOf(ss, v) ==
    IF ss = <<>> THEN <<>>
    ELSE (IF Head(ss).visitorID = v THEN <<Head(ss)>> ELSE <<>>)
            \o LogRecordsOf(Tail(ss), v)

TupleOf(sd) == Components(BodyOf(sd))

\* no two records of the log with different 4-tuples share a VisitorID
HashInjectiveOnLog ==
    \A i, j \in 1..Len(sessions) :
        TupleOf(sessions[i]) # TupleOf(sessions[j]) =>
            sessions[i].visitorID # sessions[j].visitorID

EveryRequestDeclaresIP == \A i \in 1..Len(sessions) : sessions[i].clientIP # Undef

\* C20: while the hash is injective on the submitted 4-tuples and every
\* request declared an IP, records with different declared IPs belong to
\* different visitors and no stored session has ipChanged; a session with
\* ipChanged follows a session of its visitor from which it differs in the
\* 4-tuple (a collision) or where one of the two has no declared IP.
C20_IpChangedNeedsCollisionOrMissingIP ==
    /\ (HashInjectiveOnLog /\ EveryRequestDeclaresIP) =>
          /\ \A i, j \in 1..Len(sessions) :
                sessions[i].clientIP # sessions[j].clientIP =>
                    sessions[i].visitorID # sessions[j].visitorID
          /\ \A i \in 1..Len(sessions) : ~sessions[i].ipChanged
    /\ \A j \in 1..Len(sessions) :
          sessions[j].ipChanged =>
             \E i \in 1..(j - 1) :
                /\ NextOfSameVisitor(i, j)
                /\ \/ TupleOf(sessions[i]) # TupleOf(sessions[j])
                   \/ sessions[i].clientIP = Undef
                   \/ sessions[j].clientIP = Undef

\* every request declared an IP and no two 4-tuples collide: the visitor of
\* the first record returned with the same IP after a request with another
\* declared IP was stored as another visitor
C20_Witness ==
    /\ Len(sessions) = 3
    /\ HashInjectiveOnLog
    /\ EveryRequestDeclaresIP
    /\ sessions[2].clientIP # sessions[1].clientIP
    /\ sessions[2].visitorID # sessions[1].visitorID
    /\ sessions[3].visitorID = sessions[1].visitorID
    /\ sessions[3].isReturning
    /\ ~sessions[3].ipChanged

====
